---- MODULE Spec2Model ----
(***************************************************************************)
(* A model of tarp::disjoint_range_tree<T> (disjoint_range_tree.hpp) for   *)
(* an integral T at least as wide as int, so that no integer promotion     *)
(* takes place: T = int (is_signed) and T = std::uint32_t (~is_signed),    *)
(* scaled down to 2*THalf values.  std::size_t is twice as wide as T.      *)
(*                                                                         *)
(* One action is one call of a public member function, run to completion.  *)
(* A call leaves a record of itself (op, pre_ranges, pre_size) that the    *)
(* caller drops (Drop) before the next call is made.                       *)
(***************************************************************************)
EXTENDS Integers, FiniteSets, Sequences, TLC

VARIABLES
    is_signed,      \* the template argument: TRUE for T = int, FALSE for T = uint32_t
    m_ranges,       \* std::map<T, T> m_ranges: low |-> high
    m_range_size,   \* std::optional<std::size_t> m_range_size: <<>> or <<n>>
    reference,      \* std::set<int> reference of the fuzz test (ground truth)
    op,             \* the last call: its name, arguments, result, exception
    pre_ranges,     \* m_ranges when the last call was made
    pre_size,       \* m_range_size when the last call was made
    member_offset,  \* member_offset<Parent, dlnode, MemberPtr>()
    lists,          \* the dllist objects: m_count, m_front, m_back of each
    node_next,      \* dlnode::next of every node
    node_prev,      \* dlnode::prev of every node
    held,           \* the list the caller has put each element in, or "none"
    dl_op,          \* the last dllist call: its name, arguments, result
    dl_pre,         \* lists, node_next, node_prev when the last call was made
    m_max_size,     \* std::size_t m_max_size of the lru_cache
    m_cache,        \* std::list<std::pair<Key, T>> m_cache, front first
    m_lookup,       \* std::unordered_map<Key, cache_iterator> m_lookup
    recency,        \* the keys by their last put or successful get, oldest first
    lru_op,         \* the last lru_cache call: its name, arguments, result
    lru_pre         \* m_cache, m_lookup, recency when the last call was made

tree_vars ==
    <<is_signed, m_ranges, m_range_size, reference, op, pre_ranges, pre_size>>

dl_vars == <<member_offset, lists, node_next, node_prev, held, dl_op, dl_pre>>

lru_vars == <<m_max_size, m_cache, m_lookup, recency, lru_op, lru_pre>>

vars == <<tree_vars, dl_vars, lru_vars>>

\* The domain of T has 2 * THalf values.
THalf == 3

TSize == 2 * THalf

\* std::numeric_limits<T>::min() and max()
TMin == IF is_signed THEN 0 - THalf ELSE 0

TMax == IF is_signed THEN THalf - 1 ELSE TSize - 1

TVals == TMin .. TMax

\* std::size_t has twice the width of T (64 bits against 32).
SizeMod == TSize * TSize

\* Two's complement reduction of a mathematical integer to T.
Wrap(v) == ((v - TMin) % TSize) + TMin

\* What an arithmetic expression on T evaluates to.  Unsigned arithmetic is
\* modular.  Signed overflow is undefined: a build either wraps (ovf = "wrap",
\* the plain machine instruction) or goes on with the mathematical value
\* (ovf = "exact", an optimiser reasoning as if overflow did not happen).
Arith(v, ovf) == IF v \in TVals \/ ovf = "exact" THEN v ELSE Wrap(v)

\* The outcomes of an overflowing T expression a build can produce.
OverflowOutcomes == IF is_signed THEN {"wrap", "exact"} ELSE {"wrap"}

\* Conversion of an integer to std::size_t.
ToSize(v) == v % SizeMod

Min(S) == CHOOSE a \in S : \A b \in S : a <= b

Max(S) == CHOOSE a \in S : \A b \in S : a >= b

max(a, b) == IF a >= b THEN a ELSE b

--------------------------------------------------------------------------
(* std::map<T, T>: a function from the stored keys to their values.  An    *)
(* iterator is the key it points at; End is m_ranges.end().                *)

EmptyMap == [k \in {} |-> 0]

End == TSize

begin(m) == IF DOMAIN m = {} THEN End ELSE Min(DOMAIN m)

lower_bound(m, k) ==
    LET S == {a \in DOMAIN m : a >= k}
    IN  IF S = {} THEN End ELSE Min(S)

\* std::next(it), it # end
next(m, it) == lower_bound(m, it + 1)

\* std::prev(it), it # begin
prev(m, it) == Max({a \in DOMAIN m : a < it})

\* map::insert: an existing key keeps its value
insert(m, k, v) ==
    IF k \in DOMAIN m THEN m
    ELSE [a \in DOMAIN m \cup {k} |-> IF a = k THEN v ELSE m[a]]

\* map::erase(key)
\* map::erase(key) that takes the entry after the key with it.
erase_key_and_next(m, k) ==
    [a \in {b \in DOMAIN m : b # k /\ \E c \in DOMAIN m : k < c /\ c < b} \cup
            {b \in DOMAIN m : b < k} |-> m[a]]

erase_key(m, k) == [a \in DOMAIN m \ {k} |-> m[a]]

\* map::erase(first, last) that erases the entry at last as well.
erase_range_through(m, first, last) ==
    [a \in {b \in DOMAIN m : ~(first <= b /\ b <= last)} |-> m[a]]

\* map::erase(first, last): the entries of [first, last)
erase_range(m, first, last) ==
    [a \in {b \in DOMAIN m : ~(first <= b /\ b < last)} |-> m[a]]

--------------------------------------------------------------------------
(* struct range                                                            *)

range(l, h) == [low |-> l, high |-> h]

\* range::range(T l, T h) throws std::invalid_argument
range_invalid(l, h) == h < l

\* range::contains with the low ends compared strictly.
range_contains_strict_low(r, other) == other.low > r.low /\ other.high <= r.high

\* range::contains with the high ends compared strictly.
range_contains_strict_high(r, other) == other.low >= r.low /\ other.high < r.high

\* bool range::contains(const range &other)
range_contains(r, other) == other.low >= r.low /\ other.high <= r.high

\* bool range::equals(const range &other)
range_equals(r, other) == r.low = other.low /\ r.high = other.high

\* std::size_t range::size(): (high - low) + 1 evaluated in T, then converted
range_size(r, ovf) == ToSize(Arith(Arith(r.high - r.low, ovf) + 1, ovf))

--------------------------------------------------------------------------
(* class disjoint_range_tree: the member functions as operators on the     *)
(* value m of m_ranges.                                                    *)

\* The forward scan of try_merge: while (i != m_ranges.end()) { ... }.
\* i is advanced and dereferenced without a test against end(): when i was the
\* last entry, i->first and i->second are the bytes found at end(), here
\* g = <<first, second>>.  read_end records that this read took place.
RECURSIVE merge_scan(_, _, _, _, _, _)
merge_scan(m, it, i, g, ovf, read_end) ==
    IF i = End THEN [m |-> m, i |-> i, read_end |-> read_end]
    ELSE LET n      == next(m, i)
             first  == IF n = End THEN g[1] ELSE n
             second == IF n = End THEN g[2] ELSE m[n]
             high   == m[it]
         IN  IF first > high /\ Arith(first - high, ovf) > 1
             THEN [m |-> m, i |-> n, read_end |-> read_end \/ n = End]
             ELSE merge_scan([m EXCEPT ![it] = max(high, second)], it, n, g, ovf,
                             read_end \/ n = End)

\* try_merge without the step back to a touching predecessor.
try_merge_no_prev(m, it0, g, ovf) ==
    LET s == merge_scan(m, it0, it0, g, ovf, FALSE)
    IN  [m        |-> erase_range(s.m, IF it0 # s.i THEN next(s.m, it0) ELSE it0, s.i),
         read_end |-> s.read_end]

\* void try_merge(std::map<T, T>::iterator it)
try_merge(m, it0, g, ovf) ==
    LET it == IF it0 # begin(m)
                  /\ (m[prev(m, it0)] >= it0 \/ m[prev(m, it0)] + 1 = it0)
              THEN prev(m, it0)
              ELSE it0
        s  == merge_scan(m, it, it, g, ovf, FALSE)
    IN  [m        |-> erase_range(s.m, IF it # s.i THEN next(s.m, it) ELSE it, s.i),
         read_end |-> s.read_end]

\* add_range that returns without m_range_size.reset().
add_range_no_reset(m, r, g, ovf) ==
    LET it == lower_bound(m, r.low)
    IN  IF it = End \/ it # r.low
        THEN LET t == try_merge(insert(m, r.low, r.high), r.low, g, ovf)
             IN  [m |-> t.m, reset |-> FALSE, read_end |-> t.read_end]
        ELSE IF m[it] >= r.high
        THEN [m |-> m, reset |-> FALSE, read_end |-> FALSE]
        ELSE LET t == try_merge([m EXCEPT ![it] = r.high], it, g, ovf)
             IN  [m |-> t.m, reset |-> FALSE, read_end |-> t.read_end]

\* void add_range(range r): the map it leaves, whether it reached
\* m_range_size.reset(), whether try_merge read the entry at end()
add_range(m, r, g, ovf) ==
    LET it == lower_bound(m, r.low)
    IN  IF it = End \/ it # r.low
        THEN LET t == try_merge(insert(m, r.low, r.high), r.low, g, ovf)
             IN  [m |-> t.m, reset |-> TRUE, read_end |-> t.read_end]
        ELSE IF m[it] >= r.high
        THEN [m |-> m, reset |-> FALSE, read_end |-> FALSE]
        ELSE LET t == try_merge([m EXCEPT ![it] = r.high], it, g, ovf)
             IN  [m |-> t.m, reset |-> TRUE, read_end |-> t.read_end]

\* The entries of [first, last), the run that map::erase(first, last) erases.
entries(m, first, last) ==
    {range(b, m[b]) : b \in {a \in DOMAIN m : first <= a /\ a < last}}

\* The end of remove with the erase run started at begin():
\* m_ranges.erase(m_ranges.begin(), it).
remove_finish_from_begin(m, it, erase_start, removed) ==
    [m |-> [a \in {b \in DOMAIN m : ~(b < it)} |-> m[a]],
     ret |-> removed \/ erase_start # it,
     thrown |-> FALSE, spins |-> FALSE, cases |-> <<>>,
     erased |-> {[low |-> b, high |-> m[b]] : b \in {a \in DOMAIN m : a < it}},
     skipped |-> {}, truncated |-> {}, visits |-> <<>>, computed |-> {}]

\* The end of remove with the erase run one entry too far:
\* m_ranges.erase(erase_start, std::next(it)).
remove_finish_through(m, it, erase_start, removed) ==
    [m |-> erase_range(m, erase_start, IF it = End THEN End ELSE next(m, it)),
     ret |-> removed \/ erase_start # it,
     thrown |-> FALSE, spins |-> FALSE, cases |-> <<>>,
     erased |-> entries(m, erase_start, IF it = End THEN End ELSE next(m, it)),
     skipped |-> {}, truncated |-> {}, visits |-> <<>>, computed |-> {}]

\* The end of remove, after the loop: m_ranges.erase(erase_start, it);
\* return removed || erase_start != it;
remove_finish(m, it, erase_start, removed) ==
    [m |-> erase_range(m, erase_start, it),
     ret |-> removed \/ erase_start # it,
     thrown |-> FALSE, spins |-> FALSE, cases |-> <<>>,
     erased |-> entries(m, erase_start, it),
     skipped |-> {}, truncated |-> {}, visits |-> <<>>, computed |-> {}]

\* A return, a throw or an endless repetition from inside the loop of remove
\* that leaves the map m; no run is erased after the loop.
remove_ends(m, ret, thrown, spins) ==
    [m |-> m, ret |-> ret, thrown |-> thrown, spins |-> spins, cases |-> <<>>,
     erased |-> {}, skipped |-> {}, truncated |-> {}, visits |-> <<>>,
     computed |-> {}]

\* One iteration of the scan of remove took the branch c on the range at it,
\* and the rest of the call gave rest. cases lists, in the order of the scan,
\* the branches that change or erase a range: "exact" (r.equals(x)), "split"
\* (r.contains(x)), "contained" (x.contains(r)), "truncate_low" (case 1) and
\* "truncate_high" (case 2).
took(c, rest) == [rest EXCEPT !.cases = <<c>> \o @]

\* The scan passed over the range at it as lying below x (erase_start moves
\* past it), or trimmed its high end (case 1); rest is the rest of the call.
skipping(it, rest) == [rest EXCEPT !.skipped = {it} \cup @]

truncating(it, rest) == [rest EXCEPT !.truncated = {it} \cup @]

\* One iteration of the loop of remove: the range at it was constructed and
\* the branch c was taken ("gap" is the break, "skip" the range below x,
\* "throw" the logic_error, "none" an iteration that takes no branch).
visiting(it, c, rest) == [rest EXCEPT !.visits = <<[at |-> it, branch |-> c]>> \o @]

\* The call evaluated x.low - 1 or x.high + 1: v is the mathematical value.
computing(v, rest) == [rest EXCEPT !.computed = {v} \cup @]

\* The split branch with x.low - 1 stored whenever x starts at or above r.low.
split_range_from_low(m, r, x) ==
    LET m1 == [a \in DOMAIN m \ {r.low} |-> m[a]]
        m2 == IF r.high > x.high /\ ((((x.high + 1) - TMin) % TSize) + TMin) \notin DOMAIN m1
              THEN [a \in DOMAIN m1 \cup {(((x.high + 1) - TMin) % TSize) + TMin} |->
                      IF a \in DOMAIN m1 THEN m1[a] ELSE r.high]
              ELSE m1
        m3 == IF x.low >= r.low /\ r.low \notin DOMAIN m2
              THEN [a \in DOMAIN m2 \cup {r.low} |->
                      IF a \in DOMAIN m2 THEN m2[a]
                      ELSE (((x.low - 1) - TMin) % TSize) + TMin]
              ELSE m2
    IN  [m |-> m3, ret |-> TRUE, thrown |-> FALSE, spins |-> FALSE,
         cases |-> <<>>, erased |-> {}, skipped |-> {}, truncated |-> {},
         visits |-> <<>>,
         computed |-> (IF r.high > x.high THEN {x.high + 1} ELSE {})
                         \cup (IF x.low >= r.low THEN {x.low - 1} ELSE {})]

\* The split branch with x.high + 1 stored whenever x ends at or below r.high.
split_range_to_high(m, r, x) ==
    LET m1 == [a \in DOMAIN m \ {r.low} |-> m[a]]
        m2 == IF r.high >= x.high /\ ((((x.high + 1) - TMin) % TSize) + TMin) \notin DOMAIN m1
              THEN [a \in DOMAIN m1 \cup {(((x.high + 1) - TMin) % TSize) + TMin} |->
                      IF a \in DOMAIN m1 THEN m1[a] ELSE r.high]
              ELSE m1
        m3 == IF x.low > r.low /\ r.low \notin DOMAIN m2
              THEN [a \in DOMAIN m2 \cup {r.low} |->
                      IF a \in DOMAIN m2 THEN m2[a]
                      ELSE (((x.low - 1) - TMin) % TSize) + TMin]
              ELSE m2
    IN  [m |-> m3, ret |-> TRUE, thrown |-> FALSE, spins |-> FALSE,
         cases |-> <<>>, erased |-> {}, skipped |-> {}, truncated |-> {},
         visits |-> <<>>,
         computed |-> (IF r.high >= x.high THEN {x.high + 1} ELSE {})
                         \cup (IF x.low > r.low THEN {x.low - 1} ELSE {})]

\* The branch if (r.contains(x)) of remove: erase r, store again what is
\* left of it above and below x, return true.
split_range(m, r, x) ==
    LET m1 == erase_key(m, r.low)
        m2 == IF r.high > x.high
              THEN insert(m1, Wrap(x.high + 1), r.high) ELSE m1
        m3 == IF x.low > r.low
              THEN insert(m2, r.low, Wrap(x.low - 1)) ELSE m2
    IN  [remove_ends(m3, TRUE, FALSE, FALSE) EXCEPT
            !.computed = (IF r.high > x.high THEN {x.high + 1} ELSE {})
                            \cup (IF x.low > r.low THEN {x.low - 1} ELSE {})]

\* The scan of remove: while (it != m_ranges.end()) { ... }.
\* thrown: std::logic_error; spins: no branch is taken, so the loop repeats
\* with nothing changed.
RECURSIVE remove_scan(_, _, _, _, _)
remove_scan(m, x, it, erase_start, removed) ==
    LET done == remove_finish(m, it, erase_start, removed)
    IN
    IF it = End THEN done
    ELSE LET r == range(it, m[it]) IN
         IF range_equals(r, x)
         THEN visiting(it, "exact",
                  took("exact", remove_ends(erase_key(m, r.low), TRUE, FALSE, FALSE)))
         ELSE IF range_contains(r, x)
         THEN visiting(it, "split", took("split", split_range(m, r, x)))
         ELSE IF range_contains(x, r)
         THEN visiting(it, "contained",
                  took("contained",
                       remove_scan(m, x, next(m, it), erase_start, removed)))
         ELSE IF x.high < r.low
         THEN visiting(it, "gap", done)
         ELSE IF x.low > r.high
         THEN visiting(it, "skip",
                  skipping(it, remove_scan(m, x, next(m, it), next(m, it), removed)))
         ELSE IF x.low <= r.high /\ r.high < x.high
         THEN IF r.low = r.high \/ x.low = x.high
              THEN visiting(it, "throw", remove_ends(m, FALSE, TRUE, FALSE))
              ELSE visiting(it, "truncate_low",
                       took("truncate_low",
                            truncating(it,
                                computing(x.low - 1,
                                    remove_scan([m EXCEPT ![it] = Wrap(x.low - 1)],
                                                x, it, it, TRUE)))))
         ELSE IF x.high >= r.low /\ r.high > x.high
         THEN LET m1 == erase_range(m, erase_start, next(m, it))
                  m2 == IF r.high > r.low
                        THEN insert(m1, Wrap(x.high + 1), r.high) ELSE m1
              IN  visiting(it, "truncate_high",
                      took("truncate_high",
                           [remove_ends(m2, TRUE, FALSE, FALSE) EXCEPT
                               !.erased = entries(m, erase_start, next(m, it)),
                               !.computed = IF r.high > r.low
                                            THEN {x.high + 1} ELSE {}]))
         ELSE visiting(it, "none", remove_ends(m, FALSE, FALSE, TRUE))

\* remove that starts the scan at lower_bound(x.low), without the step back.
remove_no_prev(m, x) ==
    LET it == lower_bound(m, x.low)
    IN  remove_scan(m, x, it, it, FALSE)

\* remove that starts the scan at the greatest range with low <= x.low, or
\* at lower_bound(x.low) when there is none.
remove_from_low_at_most(m, x) ==
    LET S  == {a \in DOMAIN m : a <= x.low}
        lb == IF {a \in DOMAIN m : a >= x.low} = {} THEN End
              ELSE CHOOSE a \in DOMAIN m : a >= x.low /\ \A b \in DOMAIN m : b >= x.low => a <= b
        it == IF S # {} THEN CHOOSE a \in S : \A b \in S : a >= b ELSE lb
    IN  remove_scan(m, x, it, it, FALSE)

\* remove that starts the scan at begin().
remove_from_begin(m, x) == remove_scan(m, x, begin(m), begin(m), FALSE)

\* bool remove(range x), after m_range_size.reset()
remove(m, x) ==
    LET lb == lower_bound(m, x.low)
        it == IF lb # begin(m) /\ DOMAIN m # {} THEN prev(m, lb) ELSE lb
    IN  remove_scan(m, x, it, it, FALSE)

\* contains that looks only at lower_bound(r.low), without the step back.
contains_no_prev(m, r) ==
    LET it == lower_bound(m, r.low)
    IN  IF it = End THEN FALSE ELSE range_contains(range(it, m[it]), r)

\* bool contains(range r)
contains(m, r) ==
    IF DOMAIN m = {} THEN FALSE
    ELSE LET lb == lower_bound(m, r.low)
             it == IF lb = End \/ (lb # begin(m) /\ lb > r.low)
                   THEN prev(m, lb) ELSE lb
         IN  range_contains(range(it, m[it]), r)

\* The loop of size(): the sum of range(low, high).size() over the entries.
RECURSIVE sum_sizes(_, _, _)
sum_sizes(m, keys, ovf) ==
    IF keys = {} THEN 0
    ELSE LET k == Min(keys)
         IN  ToSize(range_size(range(k, m[k]), ovf) + sum_sizes(m, keys \ {k}, ovf))

\* std::size_t size() const: the value returned (and cached)
size(m, cache, ovf) ==
    IF cache # <<>> THEN cache[1] ELSE sum_sizes(m, DOMAIN m, ovf)

\* std::optional<T> lowest() const
lowest(m) == IF DOMAIN m = {} THEN <<>> ELSE <<begin(m)>>

\* std::optional<T> highest() const
highest(m) == IF DOMAIN m = {} THEN <<>> ELSE <<m[prev(m, End)]>>

\* std::size_t range_count() const
range_count(m) == Cardinality(DOMAIN m)

\* bool empty() const
empty(m) == DOMAIN m = {}

\* operator<< of an integer: its decimal digits, "-" first when negative.
RECURSIVE digits(_)
digits(n) ==
    LET d == <<"0", "1", "2", "3", "4", "5", "6", "7", "8", "9">>
    IN  IF n < 10 THEN <<d[n + 1]>> ELSE Append(digits(n \div 10), d[(n % 10) + 1])

decimal(v) == IF v < 0 THEN <<"-">> \o digits(0 - v) ELSE digits(v)

\* The loop of str(): "(low,high)" for each entry, ", " between two.
RECURSIVE str_entries(_, _)
str_entries(m, it) ==
    IF it = End THEN <<>>
    ELSE <<"(">> \o decimal(it) \o <<",">> \o decimal(m[it]) \o <<")">>
            \o (IF next(m, it) # End THEN <<", ">> ELSE <<>>)
            \o str_entries(m, next(m, it))

\* std::string str() const, as the pieces written to the stream
str(m) == <<"T(">> \o str_entries(m, begin(m)) \o <<")">>

--------------------------------------------------------------------------
(* tarp::dllist<Parent, MemberPtr> (intrusive_dllist.hpp): NNodes elements *)
(* of type Parent, each embedding one dlnode, and the lists "a" and "b".   *)
(* A pointer to a node is the number of its element, nullptr is 0.  A call *)
(* returns ("returned"), throws ("invalid_argument", "logic_error"), reads *)
(* or writes through nullptr, which ends the process ("fault"), loops for  *)
(* ever ("no_return"), or cannot be compiled ("ill_formed").               *)

\* The number of elements the caller owns.
NNodes == 3

Nodes == 1 .. NNodes

nullptr == 0

ListIds == {"a", "b"}

\* sizeof(Parent), in units of the offset of the embedded node.
ParentSize == 2

\* The address of the node a node pointer holds; nullptr is address 0.
NodeAddr(p) == IF p = nullptr THEN 0 ELSE ParentSize * p + member_offset

\* The address of the element that embeds node n.
ParentAddr(n) == ParentSize * n

\* container_of: member_addr - member_offset<Parent, Member, member_ptr>()
container_of(member) == NodeAddr(member) - member_offset

\* dllist() = default
EmptyList == [m_count |-> 0, m_front |-> nullptr, m_back |-> nullptr]

\* void clear()
clear(L) == [L EXCEPT !.m_front = nullptr, !.m_back = nullptr, !.m_count = 0]

\* What a member function of one list leaves: the list, the links of the
\* nodes, the value it returns.
Done(L, nx, pv, ret) ==
    [list |-> L, next |-> nx, prev |-> pv, ret |-> ret, outcome |-> "returned"]

\* The call did not return: it ended as outcome says, before it changed
\* anything the caller can see.
Ended(L, nx, pv, outcome) ==
    [list |-> L, next |-> nx, prev |-> pv, ret |-> nullptr, outcome |-> outcome]

\* The call went through nullptr.
Fault(L, nx, pv) == Ended(L, nx, pv, "fault")

\* The call that left d did not return.
Failed(d) == d.outcome # "returned"

\* dlnode *pop_front_node()
pop_front_node(L, nx, pv) ==
    LET node == L.m_front IN
    IF L.m_count = 0 THEN Done(L, nx, pv, nullptr)
    ELSE IF L.m_count = 1 THEN Done(clear(L), nx, pv, node)
    ELSE IF node = nullptr \/ nx[node] = nullptr THEN Fault(L, nx, pv)
    ELSE IF L.m_count = 2
    THEN LET f == nx[node]
         IN  Done([L EXCEPT !.m_front = f, !.m_back = f, !.m_count = 1],
                  [nx EXCEPT ![f] = nullptr], [pv EXCEPT ![f] = nullptr], node)
    ELSE LET f == nx[node]
         IN  Done([L EXCEPT !.m_front = f, !.m_count = ToSize(@ - 1)],
                  nx, [pv EXCEPT ![f] = nullptr], node)

\* dlnode *pop_back_node()
pop_back_node(L, nx, pv) ==
    LET node == L.m_back IN
    IF L.m_count = 0 THEN Done(L, nx, pv, nullptr)
    ELSE IF L.m_count = 1 THEN Done(clear(L), nx, pv, node)
    ELSE IF node = nullptr \/ pv[node] = nullptr THEN Fault(L, nx, pv)
    ELSE IF L.m_count = 2
    THEN LET f == pv[node]
         IN  Done([L EXCEPT !.m_front = f, !.m_back = f, !.m_count = 1],
                  [nx EXCEPT ![f] = nullptr], [pv EXCEPT ![f] = nullptr], node)
    ELSE LET b == pv[node]
         IN  Done([L EXCEPT !.m_back = b, !.m_count = ToSize(@ - 1)],
                  [nx EXCEPT ![b] = nullptr], pv, node)

\* Parent *pop_front(): get_container(pop_front_node())
pop_front(L, nx, pv) ==
    LET d == pop_front_node(L, nx, pv)
    IN  [d EXCEPT !.ret = container_of(d.ret)]

\* Parent *pop_back(): get_container(pop_back_node())
pop_back(L, nx, pv) ==
    LET d == pop_back_node(L, nx, pv)
    IN  [d EXCEPT !.ret = container_of(d.ret)]

\* void push_front(dlnode &node)
push_front(L, nx, pv, node) ==
    LET nx1 == [nx EXCEPT ![node] = L.m_front]
        pv1 == [pv EXCEPT ![node] = nullptr]
    IN  IF L.m_count = 0
        THEN Done([L EXCEPT !.m_front = node, !.m_back = node, !.m_count = 1],
                  nx1, pv1, nullptr)
        ELSE IF nx1[node] = nullptr THEN Fault(L, nx, pv)
        ELSE Done([L EXCEPT !.m_front = node, !.m_count = ToSize(@ + 1)],
                  nx1, [pv1 EXCEPT ![nx1[node]] = node], nullptr)

\* push_back without m_back->prev->next = m_back: the old back is not linked
\* to the new one.
push_back_unlinked(L, nx, pv, node) ==
    LET nx1 == [nx EXCEPT ![node] = nullptr]
        pv1 == [pv EXCEPT ![node] = L.m_back]
    IN  IF L.m_count = 0
        THEN [list |-> [L EXCEPT !.m_front = node, !.m_back = node, !.m_count = 1],
              next |-> nx1, prev |-> pv1, ret |-> nullptr, outcome |-> "returned"]
        ELSE [list |-> [L EXCEPT !.m_back = node, !.m_count = (@ + 1) % SizeMod],
              next |-> nx1, prev |-> pv1, ret |-> nullptr, outcome |-> "returned"]

\* void push_back(dlnode &node)
push_back(L, nx, pv, node) ==
    LET nx1 == [nx EXCEPT ![node] = nullptr]
        pv1 == [pv EXCEPT ![node] = L.m_back]
    IN  IF L.m_count = 0
        THEN Done([L EXCEPT !.m_front = node, !.m_back = node, !.m_count = 1],
                  nx1, pv1, nullptr)
        ELSE IF pv1[node] = nullptr THEN Fault(L, nx, pv)
        ELSE Done([L EXCEPT !.m_back = node, !.m_count = ToSize(@ + 1)],
                  [nx1 EXCEPT ![pv1[node]] = node], pv1, nullptr)

\* What join leaves: both lists and the links of the nodes.
Joined(A, B, nx, pv, outcome) ==
    [this |-> A, other |-> B, next |-> nx, prev |-> pv, outcome |-> outcome]

\* void join(dllist &other)
join(A, B, nx, pv) ==
    IF A.m_back # nullptr
    THEN IF B.m_front = nullptr
         THEN Joined(A, B, nx, pv, "fault")
         ELSE Joined([A EXCEPT !.m_count = ToSize(@ + B.m_count)], clear(B),
                     [nx EXCEPT ![A.m_back] = B.m_front],
                     [pv EXCEPT ![B.m_front] = A.m_back], "returned")
    ELSE Joined([A EXCEPT !.m_front = B.m_front, !.m_back = B.m_back,
                          !.m_count = ToSize(@ + B.m_count)],
                clear(B), nx, pv, "returned")

\* for (auto &elem : list): the nodes met from p by following next, as far
\* as nullptr (at most fuel of them: a list whose links go round has no end).
RECURSIVE forward(_, _, _)
forward(nx, p, fuel) ==
    IF p = nullptr \/ fuel = 0 THEN <<>>
    ELSE <<p>> \o forward(nx, nx[p], fuel - 1)

\* The nodes met from p by following prev (reverse_iterator).
RECURSIVE backward(_, _, _)
backward(pv, p, fuel) ==
    IF p = nullptr \/ fuel = 0 THEN <<>>
    ELSE <<p>> \o backward(pv, pv[p], fuel - 1)

\* begin() .. end() of the list L
elements(L, nx) == forward(nx, L.m_front, NNodes + 1)

\* rbegin() .. rend() of the list L
elements_reversed(L, pv) == backward(pv, L.m_back, NNodes + 1)

\* The largest number of rotations a caller asks for.
MaxRotations == 4

\* The node reached from p by k steps along the links f, or nullptr if the
\* chain ends first: for (...; i < k && node != nullptr; ++i, node = f(node)).
RECURSIVE step(_, _, _)
step(f, p, k) ==
    IF k = 0 \/ p = nullptr THEN p ELSE step(f, f[p], k - 1)

\* static std::size_t count_list_nodes(dllist &list): <<n>>, or <<>> when the
\* next links from the front go round and the loop never ends.
count_list_nodes(L, nx) ==
    LET walk == forward(nx, L.m_front, NNodes + 1)
    IN  IF Len(walk) > NNodes THEN <<>> ELSE <<Len(walk)>>

\* dllist split(dlnode &node): this list and the list b it returns.
split(A, nx, pv, node) ==
    IF node = A.m_front
    THEN Joined(EmptyList, A, nx, pv, "returned")
    ELSE LET b_back == IF nx[node] = nullptr THEN node ELSE nullptr
             cut == IF node = A.m_back
                    THEN pop_back(A, nx, pv)
                    ELSE IF pv[node] = nullptr THEN Fault(A, nx, pv)
                    ELSE Done([A EXCEPT !.m_back = pv[node]],
                              [nx EXCEPT ![pv[node]] = nullptr], pv, nullptr)
             pv1 == [cut.prev EXCEPT ![node] = nullptr]
             n == count_list_nodes([m_front |-> node], cut.next)
         IN  IF Failed(cut) THEN Joined(A, EmptyList, nx, pv, "fault")
             ELSE IF n = <<>> THEN Joined(A, EmptyList, nx, pv, "no_return")
             ELSE Joined([cut.list EXCEPT !.m_count = ToSize(A.m_count - n[1])],
                         [m_count |-> n[1], m_front |-> node, m_back |-> b_back],
                         cut.next, pv1, "returned")

\* dlnode *find_nth_node(std::size_t n)
find_nth_node(L, nx, pv, n) ==
    IF n = 0 \/ n > L.m_count THEN nullptr
    ELSE IF n <= L.m_count \div 2 THEN step(nx, L.m_front, n - 1)
    ELSE step(pv, L.m_back, L.m_count - n)

\* void rotate_to(dlnode &node)
rotate_to(L, nx, pv, node) ==
    IF node = L.m_front THEN Done(L, nx, pv, nullptr)
    ELSE IF L.m_back = nullptr \/ L.m_front = nullptr THEN Fault(L, nx, pv)
    ELSE LET nx1 == [nx EXCEPT ![L.m_back] = L.m_front]
             pv1 == [pv EXCEPT ![L.m_front] = L.m_back]
             back == pv1[node]
         IN  IF back = nullptr THEN Fault(L, nx, pv)
             ELSE Done([L EXCEPT !.m_front = node, !.m_back = back],
                       [nx1 EXCEPT ![back] = nullptr],
                       [pv1 EXCEPT ![node] = nullptr], nullptr)

\* rotate that turns the list the same way whatever the sign of dir.
rotate_one_way(L, nx, pv, dir, num_rotations) ==
    IF dir = 0 \/ L.m_count < 2 \/ num_rotations = 0 THEN Done(L, nx, pv, nullptr)
    ELSE LET remainder == num_rotations % L.m_count
             node == find_nth_node(L, nx, pv, remainder + 1)
         IN  IF remainder = 0 THEN Done(L, nx, pv, nullptr)
             ELSE IF node = nullptr THEN Ended(L, nx, pv, "logic_error")
             ELSE rotate_to(L, nx, pv, node)

\* void rotate(int dir, std::size_t num_rotations)
rotate(L, nx, pv, dir, num_rotations) ==
    IF dir = 0 \/ L.m_count < 2 \/ num_rotations = 0 THEN Done(L, nx, pv, nullptr)
    ELSE LET remainder == num_rotations % L.m_count
             num == IF dir > 0 THEN remainder ELSE L.m_count - remainder
             node == find_nth_node(L, nx, pv, num + 1)
         IN  IF remainder = 0 THEN Done(L, nx, pv, nullptr)
             ELSE IF node = nullptr THEN Ended(L, nx, pv, "logic_error")
             ELSE rotate_to(L, nx, pv, node)

\* void swap(dlnode &a, dlnode &b): its statement replace(b, a) names a
\* function that takes two Parent & (the one for nodes is replace_node), and a
\* dlnode does not convert to a Parent &. A program that calls swap on two
\* elements is ill-formed: the compiler rejects it and there is nothing to run.
swap(L, nx, pv, a, b) == Ended(L, nx, pv, "ill_formed")

\* void unlink(dlnode &node)
unlink(L, nx, pv, node) ==
    IF L.m_count <= 0 THEN Ended(L, nx, pv, "invalid_argument")
    ELSE IF node = L.m_front THEN [pop_front(L, nx, pv) EXCEPT !.ret = nullptr]
    ELSE IF node = L.m_back THEN [pop_back(L, nx, pv) EXCEPT !.ret = nullptr]
    ELSE IF nx[node] = nullptr \/ pv[node] = nullptr THEN Fault(L, nx, pv)
    ELSE Done([L EXCEPT !.m_count = ToSize(@ - 1)],
              [nx EXCEPT ![pv[node]] = nx[node]],
              [pv EXCEPT ![nx[node]] = pv[node]], nullptr)

\* void put_after(dlnode &node_before, dlnode &node)
put_after(L, nx, pv, node_before, node) ==
    IF node_before = L.m_back THEN push_back(L, nx, pv, node)
    ELSE IF nx[node_before] = nullptr THEN Fault(L, nx, pv)
    ELSE Done([L EXCEPT !.m_count = ToSize(@ + 1)],
              [nx EXCEPT ![node] = nx[node_before], ![node_before] = node],
              [pv EXCEPT ![nx[node_before]] = node, ![node] = node_before],
              nullptr)

\* void put_before(dlnode &node_after, dlnode &node)
put_before(L, nx, pv, node_after, node) ==
    IF node_after = L.m_front THEN push_front(L, nx, pv, node)
    ELSE IF pv[node_after] = nullptr THEN Fault(L, nx, pv)
    ELSE Done([L EXCEPT !.m_count = ToSize(@ + 1)],
              [nx EXCEPT ![pv[node_after]] = node, ![node] = node_after],
              [pv EXCEPT ![node] = pv[node_after], ![node_after] = node],
              nullptr)

\* dlnode *replace_node(dlnode &a, dlnode &b)
replace_node(L, nx, pv, a, b) ==
    LET nx1 == [nx EXCEPT ![b] = nx[a]]
        pv1 == [pv EXCEPT ![b] = pv[a]]
        pv2 == IF nx1[b] # nullptr THEN [pv1 EXCEPT ![nx1[b]] = b] ELSE pv1
        L1  == IF nx1[b] # nullptr THEN L ELSE [L EXCEPT !.m_back = b]
        nx2 == IF pv1[b] # nullptr THEN [nx1 EXCEPT ![pv1[b]] = b] ELSE nx1
        L2  == IF pv1[b] # nullptr THEN L1 ELSE [L1 EXCEPT !.m_front = b]
    IN  Done(L2, nx2, pv2, b)

\* Parent *replace(Parent &a, Parent &b)
replace(L, nx, pv, a, b) ==
    [replace_node(L, nx, pv, a, b) EXCEPT !.ret = ParentAddr(b)]

\* The loop of upend: while (a && a->next) { b = a->next;
\* a->next = b->next; b->next = c; if (c) c->prev = b; c = b; }
RECURSIVE upend_loop(_, _, _, _, _, _)
upend_loop(nx, pv, a, b, c, fuel) ==
    IF ~(a # nullptr /\ nx[a] # nullptr)
    THEN [next |-> nx, prev |-> pv, a |-> a, b |-> b, ends |-> TRUE]
    ELSE IF fuel = 0
    THEN [next |-> nx, prev |-> pv, a |-> a, b |-> b, ends |-> FALSE]
    ELSE LET b1  == nx[a]
             nx1 == [nx EXCEPT ![a] = nx[b1]]
             nx2 == [nx1 EXCEPT ![b1] = c]
             pv1 == IF c # nullptr THEN [pv EXCEPT ![c] = b1] ELSE pv
         IN  upend_loop(nx2, pv1, a, b1, b1, fuel - 1)

\* void upend()
upend(L, nx, pv) ==
    IF L.m_count < 2 \/ L.m_front = nullptr THEN Done(L, nx, pv, nullptr)
    ELSE LET u == upend_loop(nx, pv, L.m_front, L.m_front, L.m_front, NNodes + 1)
         IN  IF ~u.ends THEN Ended(L, nx, pv, "no_return")
             ELSE Done([L EXCEPT !.m_back = u.a, !.m_front = u.b],
                       [u.next EXCEPT ![u.a] = nullptr],
                       [u.prev EXCEPT ![u.b] = nullptr], nullptr)

\* void swap_list_heads(dllist &b), void swap(dllist &other)
swap_list_heads(A, B, nx, pv) == Joined(B, A, nx, pv, "returned")

NoDlCall ==
    [name |-> "none", this |-> "a", other |-> "a", node |-> nullptr,
     ret |-> 0, outcome |-> "none"]

DlCall(name, l, o, node, ret, outcome) ==
    [name |-> name, this |-> l, other |-> o, node |-> node, ret |-> ret,
     outcome |-> outcome]

\* The lists and the nodes as the caller's declarations leave them:
\* dllist a, b; and elements whose dlnode has next = prev = nullptr.
Constructed ==
    /\ lists = [l \in ListIds |-> EmptyList]
    /\ node_next = [n \in Nodes |-> nullptr]
    /\ node_prev = [n \in Nodes |-> nullptr]
    /\ held = [n \in Nodes |-> "none"]
    /\ dl_op = NoDlCall
    /\ dl_pre = [lists |-> lists, next |-> node_next, prev |-> node_prev]

--------------------------------------------------------------------------
(* tarp::lru_cache<Key, T> (lru_cache.hpp).  A node of the std::list is a  *)
(* cell; an iterator is the cell it points at.  m_cache lists the cells    *)
(* front first with the pair each holds; m_lookup maps the keys it has to  *)
(* cells.                                                                  *)

\* Keys are 1 .. NKeys, values 1 .. NValues, capacities 0 .. MaxCapacity.
NKeys == 3

NValues == 2

MaxCapacity == 2

Keys == 1 .. NKeys

Values == 1 .. NValues

\* The list nodes the allocator hands out: a put holds at most one more
\* than the capacity for no longer than the call.
Cells == 1 .. MaxCapacity

\* The result of a call: the members as it leaves them and what it returns.
Left(cache, lookup, ret) == [cache |-> cache, lookup |-> lookup, ret |-> ret]

\* The position in the list of the cell an iterator points at.
At(cache, it) == CHOOSE i \in DOMAIN cache : cache[i].node = it

\* list.erase(it)
list_erase(cache, it) ==
    SubSeq(cache, 1, At(cache, it) - 1) \o SubSeq(cache, At(cache, it) + 1, Len(cache))

\* m_cache.splice(m_cache.end(), m_cache, it): the cell moves to the back.
splice(cache, it) == Append(list_erase(cache, it), cache[At(cache, it)])

\* unordered_map.erase(key)
map_erase(lookup, k) == [j \in DOMAIN lookup \ {k} |-> lookup[j]]

\* The cell a new list node gets.
new_node(cache) ==
    CHOOSE c \in Cells : /\ \A i \in DOMAIN cache : cache[i].node # c
                         /\ \A d \in Cells : d < c => \E i \in DOMAIN cache : cache[i].node = d

evict_newest_(max_size, cache, lookup) ==
    IF max_size = 0 THEN Left(cache, lookup, nullptr)
    ELSE IF Len(cache) >= max_size
         THEN Left(SubSeq(cache, 1, Len(cache) - 1),
                   map_erase(lookup, cache[Len(cache)].first), nullptr)
         ELSE Left(cache, lookup, nullptr)

evict_if_full_(max_size, cache, lookup) ==
    IF max_size = 0 THEN Left(cache, lookup, nullptr)
    ELSE IF Len(cache) >= max_size
         THEN Left(Tail(cache), map_erase(lookup, Head(cache).first), nullptr)
         ELSE Left(cache, lookup, nullptr)

put_unbounded(max_size, cache, lookup, k, v) ==
    IF k \in DOMAIN lookup
    THEN LET it == lookup[k]
             updated == [cache EXCEPT ![At(cache, it)].second = v]
         IN  Left(splice(updated, it), lookup, nullptr)
    ELSE IF max_size = 0 THEN Left(cache, lookup, nullptr)
    ELSE LET node == IF Len(cache) < MaxCapacity THEN new_node(cache) ELSE Head(cache).node
             kept == IF Len(cache) < MaxCapacity THEN cache ELSE Tail(cache)
             gone == IF Len(cache) < MaxCapacity THEN lookup
                     ELSE map_erase(lookup, Head(cache).first)
         IN  Left(Append(kept, [node |-> node, first |-> k, second |-> v]),
                  [j \in DOMAIN gone \cup {k} |-> IF j = k THEN node ELSE gone[j]],
                  nullptr)

put(max_size, cache, lookup, k, v) ==
    IF k \in DOMAIN lookup
    THEN LET it == lookup[k]
             updated == [cache EXCEPT ![At(cache, it)].second = v]
         IN  Left(splice(updated, it), lookup, nullptr)
    ELSE IF max_size = 0 THEN Left(cache, lookup, nullptr)
    ELSE LET e == evict_if_full_(max_size, cache, lookup)
             node == new_node(e.cache)
         IN  Left(Append(e.cache, [node |-> node, first |-> k, second |-> v]),
                  [j \in DOMAIN e.lookup \cup {k} |->
                      IF j \in DOMAIN e.lookup THEN e.lookup[j] ELSE node],
                  nullptr)

get(cache, lookup, k) ==
    IF k \notin DOMAIN lookup THEN Left(cache, lookup, nullptr)
    ELSE Left(splice(cache, lookup[k]), lookup, lookup[k])

peek_refreshing(cache, lookup, k) ==
    IF k \notin DOMAIN lookup THEN Left(cache, lookup, nullptr)
    ELSE Left(Append(SubSeq(cache, 1, (CHOOSE i \in DOMAIN cache : cache[i].node = lookup[k]) - 1)
                        \o SubSeq(cache, (CHOOSE i \in DOMAIN cache : cache[i].node = lookup[k]) + 1,
                                  Len(cache)),
                     cache[CHOOSE i \in DOMAIN cache : cache[i].node = lookup[k]]),
              lookup, lookup[k])

peek(cache, lookup, k) ==
    IF k \notin DOMAIN lookup THEN Left(cache, lookup, nullptr)
    ELSE Left(cache, lookup, lookup[k])

lru_contains(cache, lookup, k) == Left(cache, lookup, k \in DOMAIN lookup)

lru_size(cache, lookup) == Left(cache, lookup, Cardinality(DOMAIN lookup))

lru_clear(cache, lookup) == Left(<<>>, <<>>, nullptr)

\* erase without m_lookup.erase(it): the key stays in the lookup table.
erase_list_only(cache, lookup, k) ==
    IF k \notin DOMAIN lookup THEN [cache |-> cache, lookup |-> lookup, ret |-> FALSE]
    ELSE [cache |-> SelectSeq(cache, LAMBDA e : e.node # lookup[k]),
          lookup |-> lookup, ret |-> TRUE]

erase(cache, lookup, k) ==
    IF k \notin DOMAIN lookup THEN Left(cache, lookup, FALSE)
    ELSE Left(list_erase(cache, lookup[k]), map_erase(lookup, k), TRUE)

NoLruCall == [name |-> "none", k |-> 0, v |-> 0, ret |-> nullptr]

\* lru_cache(max_size) leaves both containers empty.
NewCache ==
    /\ m_cache = <<>>
    /\ m_lookup = <<>>
    /\ recency = <<>>
    /\ lru_op = NoLruCall
    /\ lru_pre = [cache |-> <<>>, lookup |-> <<>>, recency |-> <<>>]

--------------------------------------------------------------------------
(* The calls.  An argument pair (l, h) with h < l makes the range          *)
(* constructor throw before the member function is entered.                *)

NoCall == [name |-> "none", low |-> 0, high |-> 0, ret |-> <<>>, outcome |-> "none"]

Call(name, l, h, ret, outcome) ==
    [name |-> name, low |-> l, high |-> h, ret |-> ret, outcome |-> outcome]

\* No call record is pending: the next call can be made.
Idle == op.name = "none"

\* The values i->first, i->second can take in a call add_range(r): the bytes
\* at end() are drawn only when try_merge reads them.
EndBytes(m, r, ovf) ==
    IF add_range(m, r, <<0, 0>>, ovf).read_end THEN TVals \X TVals ELSE {<<0, 0>>}

\* The range is constructed after the cached size was invalidated.
Throws_after_reset(name, l, h) ==
    /\ range_invalid(l, h)
    /\ op' = Call(name, l, h, <<>>, "invalid_argument")
    /\ m_range_size' = <<>>
    /\ UNCHANGED m_ranges

\* The constructor of range threw: nothing of the tree was touched.
Throws(name, l, h) ==
    /\ range_invalid(l, h)
    /\ op' = Call(name, l, h, <<>>, "invalid_argument")
    /\ UNCHANGED <<m_ranges, m_range_size>>

\* The effect of add_range(l, h) on the tree.
add_range_call(l, h) ==
    \/ Throws("add_range", l, h)
    \/ /\ ~range_invalid(l, h)
       /\ \E ovf \in OverflowOutcomes :
            \E g \in EndBytes(m_ranges, range(l, h), ovf) :
               LET a == add_range(m_ranges, range(l, h), g, ovf)
               IN  /\ m_ranges' = a.m
                   /\ m_range_size' = IF a.reset THEN <<>> ELSE m_range_size
                   /\ op' = Call("add_range", l, h, <<>>, "returned")

\* remove(l, h) without the m_range_size.reset() at its entry.
remove_call_no_reset(l, h) ==
    \/ Throws("remove", l, h)
    \/ /\ ~range_invalid(l, h)
       /\ LET d == remove(m_ranges, range(l, h))
          IN  /\ m_ranges' = d.m
              /\ m_range_size' = m_range_size
              /\ op' = Call("remove", l, h,
                            IF d.thrown \/ d.spins THEN <<>> ELSE <<d.ret>>,
                            IF d.thrown THEN "logic_error"
                            ELSE IF d.spins THEN "no_return" ELSE "returned")

\* The effect of remove(l, h) on the tree.
remove_call(l, h) ==
    \/ Throws("remove", l, h)
    \/ /\ ~range_invalid(l, h)
       /\ LET d == remove(m_ranges, range(l, h))
          IN  /\ m_ranges' = d.m
              /\ m_range_size' = <<>>
              /\ op' = Call("remove", l, h,
                            IF d.thrown \/ d.spins THEN <<>> ELSE <<d.ret>>,
                            IF d.thrown THEN "logic_error"
                            ELSE IF d.spins THEN "no_return" ELSE "returned")

\* The effect of size() on the tree.
size_call ==
    \E ovf \in OverflowOutcomes :
       LET n == size(m_ranges, m_range_size, ovf)
       IN  /\ m_range_size' = <<n>>
           /\ op' = Call("size", 0, 0, <<n>>, "returned")
           /\ UNCHANGED m_ranges

\* A call of a const member function that drops the cached size.
Query_resetting(name, l, h, ret) ==
    /\ op' = [name |-> name, low |-> l, high |-> h, ret |-> <<ret>>,
              outcome |-> "returned"]
    /\ m_range_size' = <<>>
    /\ UNCHANGED m_ranges

\* A call of a const member function that returns ret.
Query(name, l, h, ret) ==
    /\ op' = Call(name, l, h, <<ret>>, "returned")
    /\ UNCHANGED <<m_ranges, m_range_size>>

Recorded ==
    /\ Idle
    /\ pre_ranges' = m_ranges
    /\ pre_size' = m_range_size
    /\ UNCHANGED <<is_signed, reference, dl_vars, lru_vars>>

AddRange == \E l, h \in TVals : Recorded /\ add_range_call(l, h)

Remove == \E l, h \in TVals : Recorded /\ remove_call(l, h)

Contains ==
    \E l, h \in TVals :
       /\ Recorded
       /\ \/ Throws("contains", l, h)
          \/ /\ ~range_invalid(l, h)
             /\ Query("contains", l, h, contains(m_ranges, range(l, h)))

Size == Recorded /\ size_call

Lowest == Recorded /\ Query("lowest", 0, 0, lowest(m_ranges))

Highest == Recorded /\ Query("highest", 0, 0, highest(m_ranges))

RangeCount == Recorded /\ Query("range_count", 0, 0, range_count(m_ranges))

Empty == Recorded /\ Query("empty", 0, 0, empty(m_ranges))

Str == Recorded /\ Query("str", 0, 0, str(m_ranges))

\* The caller is done with the result of the last call.
Drop ==
    /\ ~Idle
    /\ op' = NoCall
    /\ pre_ranges' = EmptyMap
    /\ pre_size' = <<>>
    /\ UNCHANGED <<is_signed, m_ranges, m_range_size, reference, dl_vars, lru_vars>>

Init ==
    /\ is_signed \in BOOLEAN
    /\ m_ranges = EmptyMap
    /\ m_range_size = <<>>
    /\ reference = {}
    /\ op = NoCall
    /\ pre_ranges = EmptyMap
    /\ pre_size = <<>>
    /\ member_offset = 0
    /\ Constructed
    /\ m_max_size = 0
    /\ NewCache

Next ==
    \/ AddRange
    \/ Remove
    \/ Contains
    \/ Size
    \/ Lowest
    \/ Highest
    \/ RangeCount
    \/ Empty
    \/ Str
    \/ Drop

Spec == Init /\ [][Next]_vars

--------------------------------------------------------------------------
(* The fuzz test: the same calls on the tree and, one point at a time, on  *)
(* the reference set.                                                      *)

NoRecord == UNCHANGED <<is_signed, op, pre_ranges, pre_size, dl_vars, lru_vars>>

FuzzAdd ==
    \E l, h \in TVals :
       /\ l <= h
       /\ \E ovf \in OverflowOutcomes :
            \E g \in EndBytes(m_ranges, range(l, h), ovf) :
               LET a == add_range(m_ranges, range(l, h), g, ovf)
               IN  /\ m_ranges' = a.m
                   /\ m_range_size' = IF a.reset THEN <<>> ELSE m_range_size
       /\ reference' = reference \cup (l .. h)
       /\ NoRecord

FuzzRemove ==
    \E l, h \in TVals :
       /\ l <= h
       /\ m_ranges' = remove(m_ranges, range(l, h)).m
       /\ m_range_size' = <<>>
       /\ reference' = reference \ (l .. h)
       /\ NoRecord

FuzzSize ==
    /\ \E ovf \in OverflowOutcomes :
          m_range_size' = <<size(m_ranges, m_range_size, ovf)>>
    /\ UNCHANGED <<m_ranges, reference>>
    /\ NoRecord

NextRef == FuzzAdd \/ FuzzRemove \/ FuzzSize

SpecRef == Init /\ [][NextRef]_vars

--------------------------------------------------------------------------
(* The dllist tests: calls on the lists a and b with elements the caller   *)
(* owns.  An element is pushed only while it is in no list.                *)

\* No dllist call record is pending and the process is alive.
DlIdle == dl_op.name = "none"

\* The state the call is made in is kept for the caller to compare with.
DlRecorded ==
    /\ DlIdle
    /\ dl_pre' = [lists |-> lists, next |-> node_next, prev |-> node_prev]
    /\ UNCHANGED <<member_offset, tree_vars, lru_vars>>

\* A call on the list l alone that left d.
DlApply(name, l, node, d) ==
    /\ dl_op' = DlCall(name, l, l, node, d.ret, d.outcome)
    /\ lists' = IF Failed(d) THEN lists ELSE [lists EXCEPT ![l] = d.list]
    /\ node_next' = IF Failed(d) THEN node_next ELSE d.next
    /\ node_prev' = IF Failed(d) THEN node_prev ELSE d.prev

PushFront ==
    \E l \in ListIds : \E n \in Nodes :
       /\ held[n] = "none"
       /\ DlRecorded
       /\ DlApply("push_front", l, n, push_front(lists[l], node_next, node_prev, n))
       /\ held' = [held EXCEPT ![n] = l]

PushBack ==
    \E l \in ListIds : \E n \in Nodes :
       /\ held[n] = "none"
       /\ DlRecorded
       /\ DlApply("push_back", l, n, push_back(lists[l], node_next, node_prev, n))
       /\ held' = [held EXCEPT ![n] = l]

\* The caller has got back the element at address ret, if there is one.
Released(ret) ==
    [n \in Nodes |-> IF ParentAddr(n) = ret THEN "none" ELSE held[n]]

PopFront ==
    \E l \in ListIds :
       LET d == pop_front(lists[l], node_next, node_prev)
       IN  /\ DlRecorded
           /\ DlApply("pop_front", l, nullptr, d)
           /\ held' = IF Failed(d) THEN held ELSE Released(d.ret)

PopBack ==
    \E l \in ListIds :
       LET d == pop_back(lists[l], node_next, node_prev)
       IN  /\ DlRecorded
           /\ DlApply("pop_back", l, nullptr, d)
           /\ held' = IF Failed(d) THEN held ELSE Released(d.ret)

Join ==
    \E l \in ListIds : \E o \in ListIds \ {l} :
       LET d == join(lists[l], lists[o], node_next, node_prev)
       IN  /\ DlRecorded
           /\ dl_op' = DlCall("join", l, o, nullptr, 0, d.outcome)
           /\ lists' = IF Failed(d) THEN lists
                       ELSE [lists EXCEPT ![l] = d.this, ![o] = d.other]
           /\ node_next' = IF Failed(d) THEN node_next ELSE d.next
           /\ node_prev' = IF Failed(d) THEN node_prev ELSE d.prev
           /\ held' = IF Failed(d) THEN held
                      ELSE [n \in Nodes |-> IF held[n] = o THEN l ELSE held[n]]

\* dllist o = l.split(n): o is a list the caller declares for the result.
Split ==
    \E l \in ListIds : \E o \in ListIds \ {l} : \E n \in Nodes :
       LET d == split(lists[l], node_next, node_prev, n)
       IN  /\ held[n] = l
           /\ \A k \in Nodes : held[k] # o
           /\ DlRecorded
           /\ dl_op' = DlCall("split", l, o, n, 0, d.outcome)
           /\ lists' = IF Failed(d) THEN lists
                       ELSE [lists EXCEPT ![l] = d.this, ![o] = d.other]
           /\ node_next' = IF Failed(d) THEN node_next ELSE d.next
           /\ node_prev' = IF Failed(d) THEN node_prev ELSE d.prev
           /\ held' = IF Failed(d) THEN held
                      ELSE [k \in Nodes |->
                              IF \E i \in DOMAIN elements(d.other, d.next) :
                                    elements(d.other, d.next)[i] = k
                              THEN o ELSE held[k]]

\* l.swap(x, y) for two elements of l.
Swap ==
    \E l \in ListIds : \E x, y \in Nodes :
       /\ held[x] = l /\ held[y] = l
       /\ DlRecorded
       /\ DlApply("swap", l, x, [swap(lists[l], node_next, node_prev, x, y)
                                   EXCEPT !.ret = y])
       /\ UNCHANGED held

\* l.rotate(dir, n)
Rotate ==
    \E l \in ListIds : \E dir \in {-1, 0, 1} : \E n \in 0 .. MaxRotations :
       /\ DlRecorded
       /\ DlApply("rotate", l, dir,
                  [rotate(lists[l], node_next, node_prev, dir, n) EXCEPT !.ret = n])
       /\ UNCHANGED held

\* l.rotate_to(x) for an element x of l.
RotateTo ==
    \E l \in ListIds : \E x \in Nodes :
       /\ held[x] = l
       /\ DlRecorded
       /\ DlApply("rotate_to", l, x, rotate_to(lists[l], node_next, node_prev, x))
       /\ UNCHANGED held

\* The calls of the tests that put elements into the middle of a list and
\* take them out: an element is named only while it is in the list.
Unlink ==
    \E l \in ListIds : \E x \in Nodes :
       LET d == unlink(lists[l], node_next, node_prev, x)
       IN  /\ held[x] = l
           /\ DlRecorded
           /\ DlApply("unlink", l, x, d)
           /\ held' = IF Failed(d) THEN held ELSE [held EXCEPT ![x] = "none"]

PutAfter ==
    \E l \in ListIds : \E x, n \in Nodes :
       LET d == put_after(lists[l], node_next, node_prev, x, n)
       IN  /\ held[x] = l
           /\ held[n] = "none"
           /\ DlRecorded
           /\ DlApply("put_after", l, n, [d EXCEPT !.ret = x])
           /\ held' = IF Failed(d) THEN held ELSE [held EXCEPT ![n] = l]

PutBefore ==
    \E l \in ListIds : \E x, n \in Nodes :
       LET d == put_before(lists[l], node_next, node_prev, x, n)
       IN  /\ held[x] = l
           /\ held[n] = "none"
           /\ DlRecorded
           /\ DlApply("put_before", l, n, [d EXCEPT !.ret = x])
           /\ held' = IF Failed(d) THEN held ELSE [held EXCEPT ![n] = l]

Replace ==
    \E l \in ListIds : \E x, n \in Nodes :
       LET d == replace(lists[l], node_next, node_prev, x, n)
       IN  /\ held[x] = l
           /\ held[n] = "none"
           /\ DlRecorded
           /\ DlApply("replace", l, x, d)
           /\ held' = IF Failed(d) THEN held
                      ELSE [held EXCEPT ![x] = "none", ![n] = l]

Upend ==
    \E l \in ListIds :
       /\ DlRecorded
       /\ DlApply("upend", l, nullptr, upend(lists[l], node_next, node_prev))
       /\ UNCHANGED held

\* a.swap(b) for the two lists.
SwapLists ==
    \E l, o \in ListIds :
       LET d == swap_list_heads(lists[l], lists[o], node_next, node_prev)
       IN  /\ l # o
           /\ DlRecorded
           /\ dl_op' = DlCall("swap_lists", l, o, nullptr, nullptr, d.outcome)
           /\ lists' = [lists EXCEPT ![l] = d.this, ![o] = d.other]
           /\ node_next' = d.next
           /\ node_prev' = d.prev
           /\ held' = [n \in Nodes |-> IF held[n] = l THEN o
                                       ELSE IF held[n] = o THEN l ELSE held[n]]

\* The caller is done with the result of the last call, or has caught what
\* it threw; a call that went through nullptr has ended the process, one
\* that loops never comes back, and an ill-formed one was never made.
DlDrop ==
    /\ dl_op.outcome \in {"returned", "invalid_argument", "logic_error"}
    /\ dl_op' = NoDlCall
    /\ dl_pre' = [lists |-> lists, next |-> node_next, prev |-> node_prev]
    /\ UNCHANGED <<member_offset, lists, node_next, node_prev, held, tree_vars, lru_vars>>

InitList ==
    /\ is_signed = FALSE
    /\ m_ranges = EmptyMap
    /\ m_range_size = <<>>
    /\ reference = {}
    /\ op = NoCall
    /\ pre_ranges = EmptyMap
    /\ pre_size = <<>>
    /\ member_offset \in {0, 1}
    /\ Constructed
    /\ m_max_size = 0
    /\ NewCache

NextList ==
    \/ PushFront
    \/ PushBack
    \/ PopFront
    \/ PopBack
    \/ Join
    \/ DlDrop

SpecList == InitList /\ [][NextList]_vars

\* The calls of the split test: lists built by pushes, taken apart by split
\* and by pops.
NextSplit ==
    \/ PushFront
    \/ PushBack
    \/ PopFront
    \/ PopBack
    \/ Split
    \/ DlDrop

SpecSplit == InitList /\ [][NextSplit]_vars

\* The calls of a caller that builds lists and swaps elements in them.
NextSwap ==
    \/ PushFront
    \/ PushBack
    \/ Swap
    \/ DlDrop

SpecSwap == InitList /\ [][NextSwap]_vars

\* The calls of the queue, stack and rotation tests on lists that only
\* push, pop and rotate have touched.
NextDeque ==
    \/ PushFront
    \/ PushBack
    \/ PopFront
    \/ PopBack
    \/ Rotate
    \/ RotateTo
    \/ DlDrop

SpecDeque == InitList /\ [][NextDeque]_vars

\* The calls that edit a list in place: elements put in and taken out at
\* any position, replaced, and the list turned round or exchanged.
NextEdit ==
    \/ PushFront
    \/ PushBack
    \/ PopFront
    \/ PopBack
    \/ Unlink
    \/ PutAfter
    \/ PutBefore
    \/ Replace
    \/ Upend
    \/ SwapLists
    \/ Rotate
    \/ RotateTo
    \/ DlDrop

SpecEdit == InitList /\ [][NextEdit]_vars

--------------------------------------------------------------------------
(* Vocabulary of the properties.                                           *)

\* v lies in a stored range of m.
Covered(m, v) == \E k \in DOMAIN m : k <= v /\ v <= m[k]

\* The stored entries as a set of pairs.
Entries(m) == {<<k, m[k]>> : k \in DOMAIN m}

\* The maximal runs of consecutive integers of a set S.
MaximalRuns(S) ==
    {<<a, b>> \in TVals \X TVals :
        /\ a <= b
        /\ \A v \in a .. b : v \in S
        /\ (a - 1) \notin S
        /\ (b + 1) \notin S}

\* The last call was name(...) and it returned.
Returned(name) == op.name = name /\ op.outcome = "returned"

--------------------------------------------------------------------------
\* C1: after any sequence of add_range and remove calls, two distinct stored
\* entries (l1, h1), (l2, h2) with l1 < l2 satisfy l2 > h1 + 1: stored ranges
\* neither overlap nor touch.
DisjointNonAdjacent ==
    \A l1, l2 \in DOMAIN m_ranges : l1 < l2 => l2 > m_ranges[l1] + 1

\* C1 witness: an insertion has merged neighbours and left several ranges.
DisjointWitness ==
    /\ Returned("add_range")
    /\ Cardinality(DOMAIN m_ranges) >= 2
    /\ Cardinality(DOMAIN m_ranges) < Cardinality(DOMAIN pre_ranges)

\* C2: contains(v) is true exactly for the integers v of the reference set.
ContainsAgreesWithReference ==
    \A v \in TVals : contains(m_ranges, range(v, v)) <=> v \in reference

\* C3: size() returns the number of elements of the reference set.
SizeEqualsReference ==
    \A ovf \in OverflowOutcomes :
       size(m_ranges, m_range_size, ovf) = Cardinality(reference)

\* C4: the stored entries are exactly the maximal runs of consecutive integers
\* of the reference set, and range_count() is the number of these runs.
EntriesAreMaximalRuns ==
    /\ Entries(m_ranges) = MaximalRuns(reference)
    /\ range_count(m_ranges) = Cardinality(MaximalRuns(reference))

\* C5: remove(x) returns true exactly when some integer of x was covered
\* before the call.
RemoveReturnsCovered ==
    Returned("remove") =>
       (op.ret[1] <=> \E v \in op.low .. op.high : Covered(pre_ranges, v))

\* C5 witness: a remove that only truncated ranges (none was stored whole
\* inside x) has returned true.
RemoveReturnsWitness ==
    /\ Returned("remove")
    /\ op.ret[1]
    /\ DOMAIN m_ranges = DOMAIN pre_ranges
    /\ m_ranges # pre_ranges

\* C6: remove(x) of a range x with no covered integer returns false and leaves
\* the stored ranges as they were.
RemoveUncoveredIsNoOp ==
    (Returned("remove") /\ \A v \in op.low .. op.high : ~Covered(pre_ranges, v))
       => (op.ret[1] = FALSE /\ m_ranges = pre_ranges)

\* C6 witness: x lay in a gap, with stored ranges below and above it.
RemoveUncoveredWitness ==
    /\ Returned("remove")
    /\ \A v \in op.low .. op.high : ~Covered(pre_ranges, v)
    /\ \E a, b \in DOMAIN pre_ranges : a < op.low /\ op.high < b

\* C7: contains(low, high) with low <= high is true exactly when every integer
\* of [low, high] is covered, which is when one stored range holds the query.
ContainsIffAllCovered ==
    Returned("contains") =>
       /\ op.ret[1] <=> \A v \in op.low .. op.high : Covered(m_ranges, v)
       /\ op.ret[1] <=> \E k \in DOMAIN m_ranges :
                            k <= op.low /\ op.high <= m_ranges[k]

\* C7 witness: a query with both ends covered that spans a gap is refused.
ContainsWitness ==
    /\ Returned("contains")
    /\ op.ret[1] = FALSE
    /\ Covered(m_ranges, op.low)
    /\ Covered(m_ranges, op.high)

\* C8: lowest() and highest() are absent exactly when the reference set is
\* empty, and are its minimum and maximum otherwise.
LowestHighestAgreeWithReference ==
    /\ lowest(m_ranges) = IF reference = {} THEN <<>> ELSE <<Min(reference)>>
    /\ highest(m_ranges) = IF reference = {} THEN <<>> ELSE <<Max(reference)>>

\* C9: the cached size is absent or is the sum of the stored ranges' size(),
\* the value size() would compute now: size() returns nothing stale.
CacheAbsentOrCurrent ==
    \/ m_range_size = <<>>
    \/ \E ovf \in OverflowOutcomes :
          m_range_size[1] = sum_sizes(m_ranges, DOMAIN m_ranges, ovf)

\* C9 witness: size() has just cached the size of a tree of several ranges.
CacheWitness ==
    /\ Returned("size")
    /\ op.ret[1] >= 2
    /\ Cardinality(DOMAIN m_ranges) >= 2

\* C10 as stated: every add_range and every remove call that returns leaves
\* the cached size absent.
EveryMutatorClearsCache ==
    (Returned("add_range") \/ Returned("remove")) => m_range_size = <<>>

\* add_range(r) found an entry keyed at r.low that reaches r.high.
AddRangeKeyedNoOp ==
    /\ op.low \in DOMAIN pre_ranges
    /\ pre_ranges[op.low] >= op.high

\* C10 amended: every remove call, and every add_range call but one that finds
\* an entry keyed at r.low with high >= r.high, leaves the cached size absent;
\* that add_range call leaves the cache and the stored ranges as they were.
MutatorClearsCacheUnlessKeyedNoOp ==
    /\ Returned("remove") => m_range_size = <<>>
    /\ Returned("add_range") =>
          IF AddRangeKeyedNoOp
          THEN m_range_size = pre_size /\ m_ranges = pre_ranges
          ELSE m_range_size = <<>>

\* C10 witness: an add_range of a range covered from within (it starts inside
\* a stored range) has cleared a cached size without changing the ranges.
MutatorClearsCacheWitness ==
    /\ Returned("add_range")
    /\ ~AddRangeKeyedNoOp
    /\ pre_size # <<>>
    /\ m_ranges = pre_ranges
    /\ m_range_size = <<>>

\* The argument of the last call as a range.
Arg == range(op.low, op.high)

\* C11: add_range(r) made a second time, right after add_range(r), leaves the
\* stored ranges as the first call left them.
AddRangeIdempotent ==
    Returned("add_range") =>
       \A ovf \in OverflowOutcomes :
          \A g \in EndBytes(m_ranges, Arg, ovf) :
             add_range(m_ranges, Arg, g, ovf).m = m_ranges

\* C12: when no integer of r was covered, remove(r) right after add_range(r)
\* gives back the stored ranges as they were before the add_range.
AddThenRemoveRestores ==
    (Returned("add_range") /\ \A v \in op.low .. op.high : ~Covered(pre_ranges, v))
       => remove(m_ranges, Arg).m = pre_ranges

\* C13: add_range(r) of a range r that lies inside one stored range leaves the
\* stored ranges as they were, whether r starts at that range's low end or
\* strictly inside it.
AddContainedIsNoOp ==
    (Returned("add_range")
        /\ \E k \in DOMAIN pre_ranges : k <= op.low /\ op.high <= pre_ranges[k])
       => m_ranges = pre_ranges

\* remove(x) cut the high end of a stored range that starts below x.low and
\* ends inside x (the truncate-low branch).
TruncatedLow ==
    \E k \in DOMAIN pre_ranges \cap DOMAIN m_ranges :
       /\ k < op.low
       /\ op.low <= pre_ranges[k]
       /\ pre_ranges[k] < op.high
       /\ m_ranges[k] = op.low - 1

\* C14: no remove call raises the std::logic_error of the truncate-low branch.
LogicErrorUnreachable == op.name = "remove" => op.outcome # "logic_error"

\* C14 witness: a remove has gone through the truncate-low branch and returned.
LogicErrorWitness == Returned("remove") /\ TruncatedLow

\* C15: add_range, remove and contains called with high < low fail with the
\* invalid-argument error and leave the stored ranges and the cached size as
\* they were.
InvalidRangeRejected ==
    (op.name \in {"add_range", "remove", "contains"} /\ op.high < op.low)
       => /\ op.outcome = "invalid_argument"
          /\ m_ranges = pre_ranges
          /\ m_range_size = pre_size

\* C15 witness: remove(low, high) with high < low has thrown on a tree that
\* holds ranges and a cached size.
InvalidRangeWitness ==
    /\ op.name = "remove"
    /\ op.outcome = "invalid_argument"
    /\ op.high < op.low
    /\ pre_size # <<>>
    /\ DOMAIN m_ranges # {}

\* C16: add_range merges only what overlaps or touches in true arithmetic: an
\* integer that lies below a stored low end (or below r.low), was not covered
\* and is not in r, separates two ranges and stays uncovered.
NoMergeAcrossGap ==
    Returned("add_range") =>
       \A v \in TVals :
          (/\ v < Max(DOMAIN pre_ranges \cup {op.low})
           /\ ~Covered(pre_ranges, v)
           /\ v \notin op.low .. op.high)
             => ~Covered(m_ranges, v)

\* C17: range.size() is the true count high - low + 1: size() computed afresh
\* on a tree of one range returns it.
RangeSizeIsTrueCount ==
    (Returned("size") /\ pre_size = <<>> /\ Cardinality(DOMAIN m_ranges) = 1)
       => \A k \in DOMAIN m_ranges : op.ret[1] = m_ranges[k] - k + 1

\* C18: every add_range and remove call comes to an end: the scan of remove
\* never reaches an iteration that takes no branch, and after the truncate-low
\* branch (which does not advance) the next iteration advances.
CallsTerminate ==
    op.name \in {"add_range", "remove"} => op.outcome # "no_return"

\* C18 witness: a remove has truncated a range, gone on, erased at least one
\* range held by x, and returned.
CallsTerminateWitness ==
    /\ Returned("remove")
    /\ TruncatedLow
    /\ Cardinality(DOMAIN m_ranges) < Cardinality(DOMAIN pre_ranges)

\* The branches that remove(op.low, op.high) took on the tree it was called
\* on, in the order of the scan.
RemoveCases == remove(pre_ranges, Arg).cases

\* The ranges of the tree the call was made on that lie inside x without
\* being x.
InsideArg ==
    {k \in DOMAIN pre_ranges :
        /\ op.low <= k /\ pre_ranges[k] <= op.high
        /\ ~(k = op.low /\ pre_ranges[k] = op.high)}

\* A range of the tree the call was made on starts below x and ends inside it.
StraddlesLow ==
    \E k \in DOMAIN pre_ranges :
        k < op.low /\ op.low <= pre_ranges[k] /\ pre_ranges[k] < op.high

\* A range of the tree the call was made on starts inside x and ends above it.
StraddlesHigh ==
    \E k \in DOMAIN pre_ranges :
        op.low < k /\ k <= op.high /\ op.high < pre_ranges[k]

\* C19 as stated: every branch a remove call takes on a range is the same
\* one, and only "contained" is taken more than once. Violated: one call
\* truncates the range that straddles x.low and the one that straddles x.high.
RemoveOutcomesExclusive ==
    Returned("remove") =>
        /\ \A i, j \in DOMAIN RemoveCases : RemoveCases[i] = RemoveCases[j]
        /\ Len(RemoveCases) > 1 => RemoveCases[1] = "contained"

\* C19 amended: a remove call that finds x stored as a range erases it and
\* does nothing else; one that finds a range containing x splits or trims it
\* and does nothing else; any other call truncates the range straddling x.low
\* if there is one, then erases every range inside x, then truncates the
\* range straddling x.high if there is one, all in the same call.
RemoveOutcomesCombine ==
    Returned("remove") =>
        RemoveCases =
            IF \E k \in DOMAIN pre_ranges :
                   k = op.low /\ pre_ranges[k] = op.high
            THEN <<"exact">>
            ELSE IF \E k \in DOMAIN pre_ranges :
                        k <= op.low /\ op.high <= pre_ranges[k]
            THEN <<"split">>
            ELSE (IF StraddlesLow THEN <<"truncate_low">> ELSE <<>>)
                 \o [i \in 1 .. Cardinality(InsideArg) |-> "contained"]
                 \o (IF StraddlesHigh THEN <<"truncate_high">> ELSE <<>>)

\* C19 witness: one remove call has truncated two ranges, one at each end
\* of x.
RemoveOutcomesWitness ==
    /\ Returned("remove")
    /\ RemoveCases = <<"truncate_low", "truncate_high">>
    /\ Cardinality(DOMAIN m_ranges) = 2

--------------------------------------------------------------------------
(* Vocabulary of the dllist properties.                                    *)

\* The last dllist call was name(...) and it returned.
DlReturned(name) == dl_op.name = name /\ dl_op.outcome = "returned"

\* The sequence s back to front.
Reversed(s) == [i \in 1 .. Len(s) |-> s[Len(s) + 1 - i]]

\* Following next from the front of L visits m_count nodes and ends at the
\* back; following prev from the back visits the same nodes in reverse.
WellFormed(L, nx, pv) ==
    LET f == elements(L, nx)
    IN  /\ Len(f) = L.m_count
        /\ elements_reversed(L, pv) = Reversed(f)
        /\ IF f = <<>>
           THEN L.m_front = nullptr /\ L.m_back = nullptr
           ELSE L.m_back = f[Len(f)]

\* The list l was well formed when the last call was made.
PreWellFormed(l) == WellFormed(dl_pre.lists[l], dl_pre.next, dl_pre.prev)

\* The elements of the list l, front to back, when the last call was made.
PreElements(l) == elements(dl_pre.lists[l], dl_pre.next)

\* C20: a.join(b) on two well-formed lists returns and leaves b empty, a with
\* the sum of both sizes and the old elements of a followed by the old
\* elements of b, and the back of a at the old back of b, also when a or b is
\* empty.
JoinAppends ==
    (dl_op.name = "join" /\ PreWellFormed(dl_op.this) /\ PreWellFormed(dl_op.other))
    => /\ dl_op.outcome = "returned"
       /\ lists[dl_op.other] = EmptyList
       /\ lists[dl_op.this].m_count =
             dl_pre.lists[dl_op.this].m_count + dl_pre.lists[dl_op.other].m_count
       /\ elements(lists[dl_op.this], node_next) =
             PreElements(dl_op.this) \o PreElements(dl_op.other)
       /\ PreElements(dl_op.other) # <<>> =>
             lists[dl_op.this].m_back = dl_pre.lists[dl_op.other].m_back

\* The position of the node n in the sequence s, 0 if it is not there.
Position(s, n) ==
    IF \E i \in DOMAIN s : s[i] = n
    THEN CHOOSE i \in DOMAIN s : s[i] = n ELSE 0

\* C21: a.split(elem) on a well-formed list a that holds elem returns; a keeps
\* exactly the elements before elem; the returned list holds elem and the
\* elements after it in their order, its front is elem, its back is the old
\* back of a, and the two sizes add up to the old size of a.
SplitDivides ==
    LET old == PreElements(dl_op.this)
        at == Position(old, dl_op.node)
    IN  (dl_op.name = "split" /\ PreWellFormed(dl_op.this) /\ at > 0)
        => /\ dl_op.outcome = "returned"
           /\ elements(lists[dl_op.this], node_next) = SubSeq(old, 1, at - 1)
           /\ elements(lists[dl_op.other], node_next) = SubSeq(old, at, Len(old))
           /\ lists[dl_op.other].m_front = dl_op.node
           /\ lists[dl_op.other].m_back = dl_pre.lists[dl_op.this].m_back
           /\ lists[dl_op.this].m_count + lists[dl_op.other].m_count =
                 dl_pre.lists[dl_op.this].m_count

\* C22: pop_front() and pop_back() on an empty list return the null Parent
\* pointer and leave the list empty, whatever the offset of the node in its
\* Parent.
PopEmptyReturnsNull ==
    (dl_op.name \in {"pop_front", "pop_back"}
        /\ dl_pre.lists[dl_op.this].m_count = 0)
    => /\ dl_op.outcome = "returned"
       /\ dl_op.ret = 0
       /\ lists[dl_op.this] = EmptyList

\* The elements of the list the last call was made on, front to back.
Elements == elements(lists[dl_op.this], node_next)

\* The elements the caller has in the list l.
Held(l) == {n \in Nodes : held[n] = l}

\* C23: push_back appends and push_front prepends the element; pop_front
\* returns the first and pop_back the last element and leaves the others in
\* their order, so that elements pushed at one end come back from the other
\* in insertion order and from the same end in reverse order; every push and
\* pop returns, and size() is the number of elements linked in the list.
QueueAndStackOrder ==
    LET old == PreElements(dl_op.this)
    IN  /\ dl_op.name \in {"push_back", "push_front", "pop_back", "pop_front"}
              => dl_op.outcome = "returned"
        /\ dl_op.name = "push_back" => Elements = old \o <<dl_op.node>>
        /\ dl_op.name = "push_front" => Elements = <<dl_op.node>> \o old
        /\ (dl_op.name = "pop_front" /\ old # <<>>)
              => dl_op.ret = ParentAddr(old[1]) /\ Elements = Tail(old)
        /\ (dl_op.name = "pop_back" /\ old # <<>>)
              => /\ dl_op.ret = ParentAddr(old[Len(old)])
                 /\ Elements = SubSeq(old, 1, Len(old) - 1)
        /\ \A l \in ListIds :
              /\ lists[l].m_count = Cardinality(Held(l))
              /\ lists[l].m_count = Len(elements(lists[l], node_next))

\* C23 witness: a list of NNodes elements has given its first element to
\* pop_front.
QueueWitness ==
    /\ DlReturned("pop_front")
    /\ Len(PreElements(dl_op.this)) = NNodes
    /\ dl_op.ret = ParentAddr(PreElements(dl_op.this)[1])
    /\ Len(Elements) = NNodes - 1

\* The sequence s turned so that its k-th element comes first.
TurnedTo(s, k) == SubSeq(s, k, Len(s)) \o SubSeq(s, 1, k - 1)

\* C24: rotate(dir, n) on a list of size s returns and keeps the size; with
\* dir > 0 the element at position (n mod s) + 1 becomes the front, with
\* dir < 0 the element at position s - (n mod s) + 1, the cyclic order being
\* kept; the list is unchanged when n is a multiple of s, s < 2 or dir = 0.
RotateTurns ==
    LET old == PreElements(dl_op.this)
        s == Len(old)
        dir == dl_op.node
        n == dl_op.ret
    IN  dl_op.name = "rotate"
        => /\ dl_op.outcome = "returned"
           /\ lists[dl_op.this].m_count = s
           /\ Elements =
                 IF dir = 0 \/ s < 2 THEN old
                 ELSE IF n % s = 0 THEN old
                 ELSE IF dir > 0 THEN TurnedTo(old, (n % s) + 1)
                 ELSE TurnedTo(old, s - (n % s) + 1)
           /\ Elements # <<>> => lists[dl_op.this].m_back = Elements[Len(Elements)]

\* C24 witness: a rotation toward the back by more than the size of the list
\* has changed the front of a list of NNodes elements.
RotateWitness ==
    /\ DlReturned("rotate")
    /\ dl_op.node < 0
    /\ dl_op.ret > NNodes
    /\ Len(Elements) = NNodes
    /\ Elements # PreElements(dl_op.this)

\* C25: swap(a, b) for two distinct elements of a well-formed list returns,
\* puts a where b was and b where a was, and leaves every other element and
\* the size where they were.
SwapExchanges ==
    LET old == PreElements(dl_op.this)
        a == dl_op.node
        b == dl_op.ret
    IN  (dl_op.name = "swap" /\ a # b /\ PreWellFormed(dl_op.this)
            /\ Position(old, a) > 0 /\ Position(old, b) > 0)
        => /\ dl_op.outcome = "returned"
           /\ Elements = [i \in DOMAIN old |->
                            IF old[i] = a THEN b
                            ELSE IF old[i] = b THEN a ELSE old[i]]
           /\ lists[dl_op.this].m_count = Len(old)

--------------------------------------------------------------------------
(* The lru_cache tests: one cache of capacity m_max_size, calls of its     *)
(* public member functions with keys and values the caller chooses.        *)

LruIdle == lru_op.name = "none"

\* The sequence s without the key k.
Without(s, k) == SelectSeq(s, LAMBDA j : j # k)

\* The key k has just been used.
Refreshed(k) == Append(Without(recency, k), k)

\* A call that left d, with the state it was made in kept for the caller.
LruApply(name, k, v, d) ==
    /\ LruIdle
    /\ lru_op' = [name |-> name, k |-> k, v |-> v, ret |-> d.ret]
    /\ lru_pre' = [cache |-> m_cache, lookup |-> m_lookup, recency |-> recency]
    /\ m_cache' = d.cache
    /\ m_lookup' = d.lookup
    /\ UNCHANGED <<m_max_size, tree_vars, dl_vars>>

Put ==
    \E k \in Keys, v \in Values :
        /\ LruApply("put", k, v, put(m_max_size, m_cache, m_lookup, k, v))
        /\ recency' = Refreshed(k)

Get ==
    \E k \in Keys :
        LET d == get(m_cache, m_lookup, k)
        IN  /\ LruApply("get", k, 0, d)
            /\ recency' = IF d.ret # nullptr THEN Refreshed(k) ELSE recency

Peek ==
    \E k \in Keys :
        /\ LruApply("peek", k, 0, peek(m_cache, m_lookup, k))
        /\ UNCHANGED recency

LruContains ==
    \E k \in Keys :
        /\ LruApply("contains", k, 0, lru_contains(m_cache, m_lookup, k))
        /\ UNCHANGED recency

LruSize ==
    /\ LruApply("size", 0, 0, lru_size(m_cache, m_lookup))
    /\ UNCHANGED recency

Erase ==
    \E k \in Keys :
        /\ LruApply("erase", k, 0, erase(m_cache, m_lookup, k))
        /\ UNCHANGED recency

Clear ==
    /\ LruApply("clear", 0, 0, lru_clear(m_cache, m_lookup))
    /\ UNCHANGED recency

LruDrop ==
    /\ ~LruIdle
    /\ lru_op' = NoLruCall
    /\ lru_pre' = [cache |-> m_cache, lookup |-> m_lookup, recency |-> recency]
    /\ UNCHANGED <<m_max_size, m_cache, m_lookup, recency, tree_vars, dl_vars>>

InitLru ==
    /\ is_signed = FALSE
    /\ m_ranges = EmptyMap
    /\ m_range_size = <<>>
    /\ reference = {}
    /\ op = NoCall
    /\ pre_ranges = EmptyMap
    /\ pre_size = <<>>
    /\ member_offset = 0
    /\ Constructed
    /\ m_max_size \in 0 .. MaxCapacity
    /\ NewCache

NextLru ==
    \/ Put
    \/ Get
    \/ Peek
    \/ LruContains
    \/ LruSize
    \/ Erase
    \/ Clear
    \/ LruDrop

SpecLru == InitLru /\ [][NextLru]_vars

--------------------------------------------------------------------------
(* The lru_cache claims.                                                   *)

\* The keys stored in a list of pairs, front first.
StoredKeys(cache) == [i \in DOMAIN cache |-> cache[i].first]

KeySet(cache) == {cache[i].first : i \in DOMAIN cache}

\* The value stored with the key k.
ValueOf(cache, k) == cache[CHOOSE i \in DOMAIN cache : cache[i].first = k].second

\* Of the keys in S, the one used longest ago.
LeastRecent(S, rec) ==
    CHOOSE k \in S : \A j \in S : Position(rec, k) <= Position(rec, j)

\* C26: a put of a new key into a full cache evicts exactly the least
\* recently used key (recency refreshed by every put of the key and every
\* get that found it) and stores the new pair; a put on a stored key sets
\* its value and evicts nothing.
PutEvictsLeastRecent ==
    LET before == KeySet(lru_pre.cache)
        after == KeySet(m_cache)
        k == lru_op.k
    IN  lru_op.name = "put" =>
          /\ (k \notin before /\ m_max_size > 0 /\ Len(lru_pre.cache) = m_max_size)
                => /\ after = (before \ {LeastRecent(before, lru_pre.recency)}) \cup {k}
                   /\ Len(m_cache) = Len(lru_pre.cache)
                   /\ \A j \in after \ {k} : ValueOf(m_cache, j) = ValueOf(lru_pre.cache, j)
                   /\ ValueOf(m_cache, k) = lru_op.v
          /\ k \in before
                => /\ after = before
                   /\ Len(m_cache) = Len(lru_pre.cache)
                   /\ ValueOf(m_cache, k) = lru_op.v
                   /\ \A j \in after \ {k} : ValueOf(m_cache, j) = ValueOf(lru_pre.cache, j)

\* A put of a new key into a full cache of two whose older entry was the
\* one used last.
PutEvictsWitness ==
    /\ lru_op.name = "put"
    /\ lru_op.k \notin KeySet(lru_pre.cache)
    /\ m_max_size = 2
    /\ Len(lru_pre.cache) = 2
    /\ StoredKeys(lru_pre.cache) # SubSeq(lru_pre.recency, Len(lru_pre.recency) - 1, Len(lru_pre.recency))
    /\ lru_pre.recency[Len(lru_pre.recency)] \in KeySet(lru_pre.cache)

\* C27: size() never exceeds the capacity; a cache of capacity 0 stores
\* nothing, and get and contains on it find no key.
SizeWithinCapacity ==
    /\ Cardinality(DOMAIN m_lookup) <= m_max_size
    /\ Len(m_cache) <= m_max_size
    /\ lru_op.name = "size" => lru_op.ret <= m_max_size
    /\ m_max_size = 0 =>
          /\ m_cache = <<>>
          /\ lru_op.name = "get" => lru_op.ret = nullptr
          /\ lru_op.name = "contains" => lru_op.ret = FALSE
          /\ lru_op.name = "size" => lru_op.ret = 0

\* A put of a new key into a cache that was full.
SizeWitness ==
    /\ lru_op.name = "put"
    /\ m_max_size > 0
    /\ Len(lru_pre.cache) = m_max_size
    /\ lru_op.k \notin KeySet(lru_pre.cache)
    /\ Len(m_cache) = m_max_size

\* A get on a cache of capacity 0 of a key that was put.
ZeroCapacityWitness ==
    /\ m_max_size = 0
    /\ lru_op.name = "get"
    /\ Position(recency, lru_op.k) > 0

\* C28: peek and contains leave the list, and with it the order in which
\* keys are evicted, and the lookup table as they were.
PeekLeavesOrder ==
    lru_op.name \in {"peek", "contains"} =>
        /\ m_cache = lru_pre.cache
        /\ m_lookup = lru_pre.lookup
        /\ lru_op.name = "peek" => (lru_op.ret # nullptr <=> lru_op.k \in KeySet(m_cache))
        /\ lru_op.name = "contains" => (lru_op.ret <=> lru_op.k \in KeySet(m_cache))

\* A peek that found the key at the front of a cache of two.
PeekWitness ==
    /\ lru_op.name = "peek"
    /\ Len(m_cache) = 2
    /\ lru_op.ret # nullptr
    /\ m_cache[1].first = lru_op.k

--------------------------------------------------------------------------
\* C29: the forward scan of try_merge in add_range reads only stored
\* entries: no call of add_range dereferences end().
MergeScanReadsStored ==
    (op.name = "add_range" /\ op.outcome = "returned") =>
        \A ovf \in OverflowOutcomes :
            ~add_range(pre_ranges, range(op.low, op.high), <<0, 0>>, ovf).read_end

\* The last call of remove, made again on the tree it was made on.
LastRemove == remove(pre_ranges, Arg)

\* C30: the run that remove(x) erases in bulk holds only stored ranges that x
\* contains and, in the truncate-high case, the last range R, whose part
\* above x.high is stored again; no range that the scan skipped as lying
\* below x or trimmed at its high end is in the run.
ErasedRunContained ==
    (op.name = "remove" /\ op.outcome = "returned") =>
        LET d == LastRemove
            x == Arg
            last == CHOOSE e \in d.erased : \A f \in d.erased : f.low <= e.low
        IN  /\ \A e \in d.erased :
                 \/ range_contains(x, e)
                 \/ /\ d.cases # <<>>
                    /\ d.cases[Len(d.cases)] = "truncate_high"
                    /\ e = last
                    /\ e.low <= x.high /\ x.high < e.high
                    /\ x.high + 1 \in DOMAIN m_ranges
                    /\ m_ranges[x.high + 1] = e.high
            /\ \A e \in d.erased :
                 /\ e.low \notin d.skipped \cup d.truncated
                 /\ e.low \in DOMAIN pre_ranges /\ pre_ranges[e.low] = e.high
                 /\ e.low \notin DOMAIN m_ranges

\* A remove that trimmed the high end of one range and ended in the range it
\* cut the low end off, which is the run it erased.
ErasedRunWitness ==
    /\ op.name = "remove"
    /\ op.outcome = "returned"
    /\ LastRemove.truncated # {}
    /\ LastRemove.erased # {}
    /\ LastRemove.cases[Len(LastRemove.cases)] = "truncate_high"

\* A remove that skipped a range below x and erased one that x contains.
ErasedRunSkipWitness ==
    /\ op.name = "remove"
    /\ op.outcome = "returned"
    /\ LastRemove.skipped # {}
    /\ LastRemove.truncated = {}
    /\ LastRemove.erased # {}

--------------------------------------------------------------------------
\* The keys of the ranges stored at the call that are equal to x or contain it.
Holders == {k \in DOMAIN pre_ranges : k <= Arg.low /\ Arg.high <= pre_ranges[k]}

\* C31: when a stored range R equals or contains x, remove(x) returns true
\* and the tree it leaves is the tree of the call with R replaced by
\* (R.low, x.low - 1) if x.low > R.low and (x.high + 1, R.high) if
\* R.high > x.high; every other entry is as it was.
SplitTouchesOnlyHolder ==
    (op.name = "remove" /\ op.outcome = "returned") =>
        \A k \in Holders :
            LET others == DOMAIN pre_ranges \ {k}
                below  == IF Arg.low > k THEN {k} ELSE {}
                above  == IF pre_ranges[k] > Arg.high THEN {Arg.high + 1} ELSE {}
            IN  /\ op.ret = <<TRUE>>
                /\ DOMAIN m_ranges = others \cup below \cup above
                /\ \A j \in others : m_ranges[j] = pre_ranges[j]
                /\ \A j \in below : m_ranges[j] = Arg.low - 1
                /\ \A j \in above : m_ranges[j] = pre_ranges[k]

\* A remove from the inside of one of two stored ranges: both remainders.
SplitWitness ==
    /\ op.name = "remove"
    /\ op.outcome = "returned"
    /\ Cardinality(DOMAIN pre_ranges) >= 2
    /\ \E k \in Holders : k < Arg.low /\ Arg.high < pre_ranges[k]

\* A remove of a range that is stored as it is, between two others.
ExactWitness ==
    /\ op.name = "remove"
    /\ op.outcome = "returned"
    /\ \E k \in Holders : /\ k = Arg.low /\ Arg.high = pre_ranges[k]
                          /\ \E a, b \in DOMAIN pre_ranges : a < k /\ k < b

\* C32: remove(x) leaves every stored range that has no value in common with
\* x, one that touches x included, as it was.
DisjointRangesKept ==
    (op.name = "remove" /\ op.outcome = "returned") =>
        \A k \in DOMAIN pre_ranges :
            (pre_ranges[k] < Arg.low \/ Arg.high < k) =>
                k \in DOMAIN m_ranges /\ m_ranges[k] = pre_ranges[k]

\* A remove that changed the tree, with a range stored right above x and one
\* stored below x.
DisjointKeptWitness ==
    /\ op.name = "remove"
    /\ op.outcome = "returned"
    /\ m_ranges # pre_ranges
    /\ Arg.high + 1 \in DOMAIN pre_ranges
    /\ \E k \in DOMAIN pre_ranges : pre_ranges[k] < Arg.low

\* C33: in one call of remove the skip of a range below x and the
\* truncate-low case happen only to the first range the scan visits, and
\* the truncate-high case happens only in the last iteration.
ScanCaseOrder ==
    (op.name = "remove" /\ op.outcome = "returned") =>
        LET v == LastRemove.visits
        IN  \A i \in DOMAIN v :
                /\ v[i].branch \in {"skip", "truncate_low"} => v[i].at = v[1].at
                /\ v[i].branch = "truncate_high" => i = Len(v)

\* A remove whose scan trimmed the first range at its high end, passed over
\* it as lying below x, and ended in the truncate-high case.
ScanCaseWitness ==
    /\ op.name = "remove"
    /\ op.outcome = "returned"
    /\ Len(LastRemove.visits) >= 3
    /\ LastRemove.visits[1].branch = "truncate_low"
    /\ LastRemove.visits[2].branch = "skip"
    /\ LastRemove.visits[Len(LastRemove.visits)].branch = "truncate_high"

\* A remove whose scan skipped the first range and erased a later one.
ScanSkipWitness ==
    /\ op.name = "remove"
    /\ op.outcome = "returned"
    /\ Len(LastRemove.visits) >= 2
    /\ LastRemove.visits[1].branch = "skip"
    /\ LastRemove.visits[2].branch = "contained"

\* C34: every stored entry has low <= high, so range(it->first, it->second)
\* never throws: a call ends in std::invalid_argument only for an argument
\* pair with high < low.
StoredLowAtMostHigh ==
    /\ \A k \in DOMAIN m_ranges : k <= m_ranges[k]
    /\ op.outcome = "invalid_argument" => op.high < op.low

\* A remove that trimmed a range down to its lowest value and cut one in two.
StoredLowWitness ==
    /\ op.name = "remove"
    /\ op.outcome = "returned"
    /\ \E k \in LastRemove.truncated : k \in DOMAIN m_ranges /\ m_ranges[k] = k
    /\ LastRemove.cases[Len(LastRemove.cases)] = "truncate_high"

\* A remove from the inside of a stored range that left one value on each side.
StoredSplitWitness ==
    /\ op.name = "remove"
    /\ op.outcome = "returned"
    /\ \E k \in Holders : /\ k + 1 = Arg.low /\ Arg.high + 1 = pre_ranges[k]
                          /\ m_ranges[k] = k
                          /\ m_ranges[pre_ranges[k]] = pre_ranges[k]

\* C35: remove evaluates x.low - 1 only when a stored range starts below
\* x.low and x.high + 1 only when a stored range ends above x.high, so
\* neither leaves the domain of T.
RemoveArithmeticInDomain ==
    (op.name = "remove" /\ op.outcome # "invalid_argument") =>
        /\ \A v \in LastRemove.computed : v \in TVals
        /\ Arg.low - 1 \in LastRemove.computed =>
              \E k \in DOMAIN pre_ranges : k < Arg.low
        /\ Arg.high + 1 \in LastRemove.computed =>
              \E k \in DOMAIN pre_ranges : pre_ranges[k] > Arg.high

\* A remove up to the greatest value of T that cut the high end off a range.
ArithmeticAtMaxWitness ==
    /\ op.name = "remove"
    /\ op.outcome = "returned"
    /\ Arg.high = TMax
    /\ Arg.low - 1 \in LastRemove.computed

\* A remove from the least value of T that cut the low end off a range.
ArithmeticAtMinWitness ==
    /\ op.name = "remove"
    /\ op.outcome = "returned"
    /\ Arg.low = TMin
    /\ Arg.high + 1 \in LastRemove.computed

\* C36: contains, range_count, empty, lowest, highest and str leave the
\* stored ranges and the cached size as they were; size() leaves the stored
\* ranges as they were.
QueriesChangeNothing ==
    /\ op.name \in {"contains", "range_count", "empty", "lowest", "highest", "str"}
          => m_ranges = pre_ranges /\ m_range_size = pre_size
    /\ op.name = "size" => m_ranges = pre_ranges

\* str() of a tree of two ranges whose size is cached.
QueriesWitness ==
    /\ op.name = "str"
    /\ m_range_size # <<>>
    /\ Cardinality(DOMAIN m_ranges) = 2
    /\ Len(op.ret[1]) = 13

\* size() that computed and cached the size of a tree of two ranges.
QueriesSizeWitness ==
    /\ op.name = "size"
    /\ pre_size = <<>>
    /\ m_range_size # <<>>
    /\ Cardinality(DOMAIN m_ranges) = 2

--------------------------------------------------------------------------
\* C37: after every call of a public dllist operation every list is well
\* formed: next from the front visits size() nodes and ends at the back,
\* prev from the back visits the same nodes in reverse and ends at the front.
ListsWellFormed ==
    \A l \in ListIds : WellFormed(lists[l], node_next, node_prev)

--------------------------------------------------------------------------
\* C38: m_lookup and m_cache hold the same keys, each key in one list node,
\* and the iterator stored for a key points at the node that holds the key.
LookupMatchesList ==
    /\ DOMAIN m_lookup = KeySet(m_cache)
    /\ \A i, j \in DOMAIN m_cache :
          i # j => m_cache[i].first # m_cache[j].first /\ m_cache[i].node # m_cache[j].node
    /\ \A k \in DOMAIN m_lookup :
          \E i \in DOMAIN m_cache : m_cache[i].node = m_lookup[k] /\ m_cache[i].first = k

\* An erase of the key at the front of a full cache of two, after three
\* different keys were put.
LookupWitness ==
    /\ lru_op.name = "erase"
    /\ lru_op.ret = TRUE
    /\ m_max_size = 2
    /\ Len(lru_pre.cache) = 2
    /\ lru_pre.cache[1].first = lru_op.k
    /\ Len(m_cache) = 1
    /\ Len(recency) = 3

--------------------------------------------------------------------------
\* The keys stored at the call that are at most, below, at least x.low.
LowsAtMost == {k \in DOMAIN pre_ranges : k <= Arg.low}

LowsBelow == {k \in DOMAIN pre_ranges : k < Arg.low}

LowsAtLeast == {k \in DOMAIN pre_ranges : k >= Arg.low}

\* The range the loop of the last remove visited first, as <<low>>; <<>> when
\* the loop was not entered.
FirstVisited ==
    IF LastRemove.visits = <<>> THEN <<>> ELSE <<LastRemove.visits[1].at>>

\* C39 as stated: the scan of remove(x) starts at the greatest stored range
\* with low <= x.low, or at the first with low >= x.low when there is none.
ScanStartsAtLowAtMost ==
    (op.name = "remove" /\ op.outcome # "invalid_argument") =>
        FirstVisited = IF LowsAtMost # {} THEN <<Max(LowsAtMost)>>
                       ELSE IF LowsAtLeast # {} THEN <<Min(LowsAtLeast)>>
                       ELSE <<>>

\* C39, amended: the scan of remove(x) starts at the greatest stored range
\* with low < x.low, or at the first with low >= x.low when there is none;
\* a range keyed at x.low is reached second when a range is stored below it.
ScanStartsAtLowBelow ==
    (op.name = "remove" /\ op.outcome # "invalid_argument") =>
        /\ FirstVisited = IF LowsBelow # {} THEN <<Max(LowsBelow)>>
                          ELSE IF LowsAtLeast # {} THEN <<Min(LowsAtLeast)>>
                          ELSE <<>>
        /\ (LowsBelow # {} /\ Arg.low \in DOMAIN pre_ranges) =>
              /\ LastRemove.visits[1].branch = "skip"
              /\ LastRemove.visits[2].at = Arg.low

\* A remove(x) on a tree with a range keyed at x.low and one below it.
ScanStartWitness ==
    /\ op.name = "remove"
    /\ op.outcome = "returned"
    /\ Arg.low \in DOMAIN pre_ranges
    /\ LowsBelow # {}
    /\ LastRemove.visits[1].at < Arg.low

====
